---- MODULE Spec2Model ----
(***************************************************************************)
(* A model of the query pipeline of the RAG chatbot: conversation memory   *)
(* (graph/memory.py), the retriever with its auto-ingestion                *)
(* (retrieval/retriever.py), the pipeline nodes (graph/nodes.py,           *)
(* graph/build_graph.py), the SSE dispatcher (chatbot_service_sse.py) and  *)
(* the HTTP endpoints of both services.                                    *)
(*                                                                         *)
(* Texts are sequences of tokens.  An id is a sequence of characters, a    *)
(* query a sequence of words, an answer a sequence of the tokens           *)
(*   "w"  a word,  " "  a blank,  "NL"  a newline,  "."  a full stop,      *)
(*   "|"  a vertical bar,  "I"  the label "Intent:" (or "Entity:").        *)
(***************************************************************************)
EXTENDS Integers, Sequences, FiniteSets, TLC

VARIABLES
    max_history,     \* ConversationMemory.max_history
    redis_client,    \* TRUE: a Redis connection; FALSE: _fallback_storage
    redis_store,     \* key -> stored list of messages (Redis or fallback)
    mem_log,         \* ghost: key -> every message appended since the last clear
    mem_fault,       \* ghost: key -> a store operation on the key has failed
    mem_cleared,     \* ghost: pairs cleared and not appended to since
    mem_last,        \* ghost: the last memory call: the pair, the result, the other pairs it changed
    mem_ops,         \* ghost: number of memory calls made
    embedding,       \* the embedding model: text -> vector
    qdrant,          \* the points of the Qdrant collection, in insertion order
    runs,            \* worker -> the ChatbotState and position of its query run
    started,         \* number of query runs started
    faults,          \* number of failures of a collaborator so far
    sse,             \* the SSE stream of generate_sse_response and its worker
    http             \* the HTTP service: the chatbot instance, the request in hand, the last response

memGhost == <<mem_log, mem_fault, mem_cleared, mem_last, mem_ops>>
memVars == <<max_history, redis_client, redis_store, memGhost>>
pipeVars == <<embedding, qdrant, runs, started, faults, sse, http>>

vars == <<memVars, pipeVars>>

----------------------------------------------------------------------------
(* Bounds *)

MaxHistoryBound == 1
MaxMemOps == 3
MaxWorkers == 2
MaxRuns == 2
MaxCalls == 2
MaxFaults == 1
MaxRequests == 2
MaxRoutedRuns == 2
WordWidth == 12

----------------------------------------------------------------------------
(* Program constants; scores are in percent *)

SIMILARITY_THRESHOLD == 50
EXACT_MATCH_THRESHOLD == 90
DedupThreshold == 95
TOP_K_RESULTS == 5
DedupSearchLimit == 5
min_keyword_length == 2
ChunkSize == 30
MaxKeepalives == 15

----------------------------------------------------------------------------
(* Sequences *)

Last(s) == s[Len(s)]

\* Python's s[k:] for 0 <= k
DropFirst(s, k) == IF k >= Len(s) THEN <<>> ELSE SubSeq(s, k + 1, Len(s))

\* Python's s[-n:] for n > 0
LastN(s, n) == IF n >= Len(s) THEN s ELSE SubSeq(s, Len(s) - n + 1, Len(s))

IsSuffix(s, t) == Len(s) <= Len(t) /\ s = DropFirst(t, Len(t) - Len(s))

----------------------------------------------------------------------------
(* Texts: str.strip, ChatbotGraph._clean_response, chunk_text *)

Whitespace == {" ", "NL"}

RECURSIVE lstrip(_)
lstrip(t) ==
    IF t # <<>> /\ Head(t) \in Whitespace THEN lstrip(Tail(t)) ELSE t

RECURSIVE rstrip(_)
rstrip(t) ==
    IF t # <<>> /\ Last(t) \in Whitespace
    THEN rstrip(SubSeq(t, 1, Len(t) - 1)) ELSE t

\* str.strip()
strip(t) == rstrip(lstrip(t))

\* str.split(sep): the pieces between the separators, empty pieces included
RECURSIVE Split(_, _)
Split(t, sep) ==
    IF \E i \in 1..Len(t) : t[i] = sep
    THEN LET i == CHOOSE j \in 1..Len(t) :
                      t[j] = sep /\ \A h \in 1..(j - 1) : t[h] # sep
         IN  <<SubSeq(t, 1, i - 1)>> \o Split(SubSeq(t, i + 1, Len(t)), sep)
    ELSE <<t>>

\* sep.join(parts)
RECURSIVE Join(_, _)
Join(parts, sep) ==
    IF parts = <<>> THEN <<>>
    ELSE IF Len(parts) = 1 THEN parts[1]
    ELSE parts[1] \o <<sep>> \o Join(Tail(parts), sep)

\* re.match(r'^\s*(Intent|Entity):\s*', line): a label opens the line
IsLabelLine(line) ==
    \E i \in 1..Len(line) :
        /\ line[i] = "I"
        /\ \A h \in 1..(i - 1) : line[h] = " "

\* the lines that are not label lines
RECURSIVE DropLabelLines(_)
DropLabelLines(lines) ==
    IF lines = <<>> THEN <<>>
    ELSE (IF IsLabelLine(Head(lines)) THEN <<>> ELSE <<Head(lines)>>)
         \o DropLabelLines(Tail(lines))

\* the end of the match of r'\b(Intent|Entity):\s*[^\n]+\n?' that starts at
\* the label t[i], or 0 when the pattern does not match there
LabelMatchEnd(t, i) ==
    LET n == Len(t)
        \* \s*, greedy
        e == IF \E j \in (i + 1)..n : t[j] \notin Whitespace
             THEN (CHOOSE j \in (i + 1)..n :
                       t[j] \notin Whitespace
                       /\ \A h \in (i + 1)..(j - 1) : t[h] \in Whitespace) - 1
             ELSE n
        \* [^\n]+ starts after the blanks, or, backtracking, at the last space
        p == IF e < n THEN e + 1
             ELSE IF \E j \in (i + 1)..n : t[j] = " "
                  THEN CHOOSE j \in (i + 1)..n :
                           t[j] = " " /\ \A h \in (j + 1)..n : t[h] # " "
                  ELSE 0
        q == CHOOSE j \in p..n :
                 /\ \A h \in p..j : t[h] # "NL"
                 /\ (j = n \/ t[j + 1] = "NL")
    IN  IF t[i] # "I" \/ (i > 1 /\ t[i - 1] = "w") \/ p = 0 THEN 0
        ELSE IF q < n THEN q + 1 ELSE q

\* re.sub(r'\b(Intent|Entity):\s*[^\n]+\n?', '', t) from position i on
RECURSIVE RemoveLabels(_, _)
RemoveLabels(t, i) ==
    IF i > Len(t) THEN <<>>
    ELSE IF LabelMatchEnd(t, i) > 0
         THEN RemoveLabels(t, LabelMatchEnd(t, i) + 1)
         ELSE <<t[i]>> \o RemoveLabels(t, i + 1)

\* re.sub(r'\n{3,}', '\n\n', t) from position i on
RECURSIVE CollapseNewlines(_, _)
CollapseNewlines(t, i) ==
    IF i > Len(t) THEN <<>>
    ELSE IF t[i] = "NL" /\ i >= 3 /\ t[i - 1] = "NL" /\ t[i - 2] = "NL"
         THEN CollapseNewlines(t, i + 1)
         ELSE <<t[i]>> \o CollapseNewlines(t, i + 1)

CleanKeepsLabels(response) ==
    IF response = <<>> THEN response
    ELSE strip(CollapseNewlines(strip(response), 1))

\* ChatbotGraph._clean_response(response)
_clean_response(response) ==
    IF response = <<>> THEN response
    ELSE LET lines == Split(response, "NL")
             cleaned_lines == DropLabelLines(lines)
             cleaned == strip(Join(cleaned_lines, "NL"))
         IN  strip(CollapseNewlines(RemoveLabels(cleaned, 1), 1))

\* characters of a token: a word has WordWidth characters, "Intent:" has 7
TokLen(tok) == IF tok = "w" THEN WordWidth ELSE IF tok = "I" THEN 7 ELSE 1

\* len(text)
RECURSIVE TextLen(_)
TextLen(t) == IF t = <<>> THEN 0 ELSE TokLen(Head(t)) + TextLen(Tail(t))

\* text.replace('. ', '.|'), from position i on
RECURSIVE MarkSentences(_, _)
MarkSentences(t, i) ==
    IF i > Len(t) THEN <<>>
    ELSE IF t[i] = "." /\ i < Len(t) /\ t[i + 1] = " "
         THEN <<".", "|">> \o MarkSentences(t, i + 2)
         ELSE <<t[i]>> \o MarkSentences(t, i + 1)

\* the loop of chunk_text over the sentences and the final yield
RECURSIVE ChunkLoop(_, _, _)
ChunkLoop(sentences, current_chunk, chunk_size) ==
    IF sentences = <<>>
    THEN IF strip(current_chunk) # <<>> THEN <<strip(current_chunk)>> ELSE <<>>
    ELSE LET sentence == strip(Head(sentences))
         IN  IF sentence = <<>>
             THEN ChunkLoop(Tail(sentences), current_chunk, chunk_size)
             ELSE IF current_chunk # <<>>
                     /\ TextLen(current_chunk) + TextLen(sentence) > chunk_size
                  THEN <<current_chunk>>
                       \o ChunkLoop(Tail(sentences), sentence \o <<" ">>, chunk_size)
                  ELSE ChunkLoop(Tail(sentences),
                                 current_chunk \o sentence \o <<" ">>, chunk_size)

\* chunk_text(text, chunk_size): the chunks it yields
chunk_text(text, chunk_size) ==
    IF text = <<>> THEN <<>>
    ELSE ChunkLoop(Split(MarkSentences(text, 1), "|"), <<>>, chunk_size)

----------------------------------------------------------------------------
(* Query preprocessing: retrieval/query_processor.py *)

\* the words of the queries; "?" is a special character, " " a blank
Queries == { <<"stipend">>, <<"What", "is", "stipend", "?">> }

\* a query about programming, which the intent router classifies differently
CodingQuery == <<"python">>

STOP_WORDS == {"what", "is", "are", "you"}
DOMAIN_KEYWORDS == {"stipend", "python", "software", "engineer"}
AbbreviatedWords == {"swe", "r", "u"}
ABBREVIATIONS(word) ==
    CASE word = "swe" -> <<"software", "engineer">>
      [] word = "r" -> <<"are">>
      [] word = "u" -> <<"you">>

\* str.lower() on a word
Lower(word) == IF word = "What" THEN "what" ELSE word

\* the words of a query after lower(), the abbreviation table, the removal of
\* special characters and ' '.join(split())
RECURSIVE normalize_query(_)
normalize_query(query) ==
    IF query = <<>> THEN <<>>
    ELSE LET word == Lower(Head(query))
         IN  (IF word \in AbbreviatedWords THEN ABBREVIATIONS(word)
              ELSE IF word \in {"?", " "} THEN <<>>
              ELSE <<word>>)
             \o normalize_query(Tail(query))

\* extract_keywords(query), min_keyword_length = 2
RECURSIVE extract_keywords(_)
extract_keywords(query) ==
    IF query = <<>> THEN <<>>
    ELSE LET word == Head(query)
         IN  (IF Len(word) < min_keyword_length THEN <<>>
              ELSE IF word \in DOMAIN_KEYWORDS THEN <<word>>
              ELSE IF word \in STOP_WORDS THEN <<>>
              ELSE <<word>>)
             \o extract_keywords(Tail(query))

SearchQueryIsRawQuery(query) == query

\* retrieve, lines 76-86: the text that is embedded at query time
SearchQuery(query) ==
    LET normalized_query == normalize_query(query)
        keyword_query == extract_keywords(normalized_query)
    IN  IF keyword_query # <<>> THEN keyword_query ELSE normalized_query

----------------------------------------------------------------------------
(* Embeddings and the vector store: ingestion/embeddings.py, Qdrant *)

\* A vector is a unit vector of the plane, given by its angle in degrees.
Angles == {0, 18, 25, 60}

\* the cosine of an angle of d degrees, 0 <= d <= 90, in percent
\* (Bhaskara's approximation; 18 -> 95, 25 -> 90, 60 -> 50, 75 -> 25)
CosPercent(d) == (100 * (32400 - 4 * d * d)) \div (32400 + d * d)

\* the cosine score Qdrant reports for two vectors
Score(v, w) == CosPercent(IF v >= w THEN v - w ELSE w - v)

\* the texts the pipeline embeds
EmbedTexts ==
    (Queries \cup {CodingQuery})
        \cup { SearchQuery(q) : q \in Queries \cup {CodingQuery} }

\* the embedding model is a fixed function of the text; the models here place
\* "stipend" and "python" at the same point
EmbeddingModels ==
    { e \in [EmbedTexts -> Angles] : e[<<"stipend">>] = 0 /\ e[CodingQuery] = 0 }

GeneratedQA == "Generated Q&A"

\* the payload and vector ingest_qa_pair stores (lines 236-256)
QAPoint(question, answer, vector) ==
    [vector |-> vector,
     payload |-> [content |-> <<"Question:">> \o question \o <<"Answer:">> \o answer,
                  document_type |-> GeneratedQA,
                  company |-> "General Knowledge",
                  source |-> "Gemini LLM",
                  question |-> question,
                  answer |-> answer]]

\* a curated document of the knowledge base
CuratedPoint(vector) ==
    [vector |-> vector,
     payload |-> [content |-> <<"doc">>,
                  document_type |-> "Company Info",
                  company |-> "Google",
                  source |-> "companies",
                  question |-> <<>>,
                  answer |-> <<>>]]

\* the indexes of the points that pass the filter on document_type
Candidates(store, doc_type) ==
    { i \in 1..Len(store) :
        doc_type = "" \/ store[i].payload.document_type = doc_type }

\* query_points(query=vector, limit=limit, query_filter=...): the points by
\* descending score, equal scores in the order of insertion
RECURSIVE Ranked(_, _, _, _)
Ranked(store, vector, limit, cands) ==
    IF limit = 0 \/ cands = {} THEN <<>>
    ELSE LET best == CHOOSE i \in cands :
                 \A j \in cands :
                     \/ Score(vector, store[i].vector) > Score(vector, store[j].vector)
                     \/ /\ Score(vector, store[i].vector) = Score(vector, store[j].vector)
                        /\ i <= j
         IN  <<[payload |-> store[best].payload,
                score |-> Score(vector, store[best].vector)]>>
             \o Ranked(store, vector, limit - 1, cands \ {best})

query_points(store, vector, limit, doc_type) ==
    Ranked(store, vector, limit, Candidates(store, doc_type))

retrieveIgnoresFailure(store, embed, query, fails) ==
    IF query = <<>> THEN <<>>
    ELSE LET search_results ==
                 query_points(store, embed[SearchQuery(query)], TOP_K_RESULTS, "")
         IN  [i \in 1..Len(search_results) |->
                 [content |-> search_results[i].payload.content,
                  metadata |-> [f \in {"document_type", "company", "source",
                                        "question", "answer"} |->
                                   search_results[i].payload[f]],
                  similarity_score |-> search_results[i].score]]

\* Retriever.retrieve(query): documents with content, metadata, similarity_score
retrieve(store, embed, query, fails) ==
    IF query = <<>> \/ fails THEN <<>>
    ELSE LET search_results ==
                 query_points(store, embed[SearchQuery(query)], TOP_K_RESULTS, "")
         IN  [i \in 1..Len(search_results) |->
                 [content |-> search_results[i].payload.content,
                  metadata |-> [f \in {"document_type", "company", "source",
                                        "question", "answer"} |->
                                   search_results[i].payload[f]],
                  similarity_score |-> search_results[i].score]]

----------------------------------------------------------------------------
(* Score validation: retrieval/score_threshold.py *)

RECURSIVE SelectDocs(_, _)
SelectDocs(docs, threshold) ==
    IF docs = <<>> THEN <<>>
    ELSE (IF Head(docs).similarity_score >= threshold
          THEN <<Head(docs)>> ELSE <<>>)
         \o SelectDocs(Tail(docs), threshold)

filter_by_thresholdKeepsAll(retrieved_docs) == retrieved_docs

\* ScoreThreshold.filter_by_threshold(retrieved_docs)
filter_by_threshold(retrieved_docs) ==
    SelectDocs(retrieved_docs, SIMILARITY_THRESHOLD)

validate_retrievalAnyDocument(retrieved_docs) ==
    Len(retrieved_docs) > 0

\* ScoreThreshold.validate_retrieval(retrieved_docs)
validate_retrieval(retrieved_docs) ==
    Len(filter_by_threshold(retrieved_docs)) > 0

----------------------------------------------------------------------------
(* The answer generator: llm/gemini_llm.py *)

\* what GeminiLLM._call_api can return for a completed call: the stripped,
\* non-empty text of the model (a leaked label, a label line followed by the
\* answer, two long sentences, a bare table bar)
LLMTexts ==
    { <<"I", " ", "w">>,
      <<"I", " ", "w", "NL", "w">>,
      <<"w", " ", "w", ".", " ", "w", " ", "w", ".">>,
      <<"|">> }

\* the prompt of generate_response(question, conversation_history)
ResponsePrompt(question, conversation_history) ==
    [call |-> "generate_response", history |-> conversation_history,
     context |-> <<>>, question |-> question]

\* the prompt of generate_rag_answer(context, question, conversation_history)
RagPrompt(context, question, conversation_history) ==
    [call |-> "generate_rag_answer", history |-> conversation_history,
     context |-> context, question |-> question]

----------------------------------------------------------------------------
(* Intent routing: routing/intent_router.py, routing/route_rules.py *)

internship_keywords == {"stipend", "internship"}
coding_keywords == {"python"}
interview_keywords == {"interview"}
education_keywords == {"what is", "learn"}

\* keyword.lower() in text_lower, for the words and phrases of the model
KeywordIn(keyword, query) ==
    IF keyword = "what is"
    THEN \E i \in 1..(Len(query) - 1) :
             Lower(query[i]) = "what" /\ Lower(query[i + 1]) = "is"
    ELSE \E i \in 1..Len(query) : Lower(query[i]) = keyword

_count_keyword_matches(query, keywords) ==
    Cardinality({ k \in keywords : KeywordIn(k, query) })

\* IntentRouter.classify_intent(query): the first category with the highest count
classify_intent(query) ==
    LET internship_score == _count_keyword_matches(query, internship_keywords)
        coding_score == _count_keyword_matches(query, coding_keywords)
        interview_score == _count_keyword_matches(query, interview_keywords)
        education_score == _count_keyword_matches(query, education_keywords)
        best == CHOOSE m \in {internship_score, coding_score,
                              interview_score, education_score} :
                    /\ m >= internship_score /\ m >= coding_score
                    /\ m >= interview_score /\ m >= education_score
    IN  IF query = <<>> \/ best = 0 THEN "GENERAL_EDUCATION"
        ELSE IF internship_score = best THEN "COMPANY_INTERNSHIP"
        ELSE IF coding_score = best THEN "EDUCATION_CODING"
        ELSE IF interview_score = best THEN "INTERVIEW_PREPARATION"
        ELSE "GENERAL_EDUCATION"

route_queryByIntent(query) ==
    [intent |-> classify_intent(query),
     pipeline |-> IF classify_intent(query) = "COMPANY_INTERNSHIP" THEN "RAG"
                  ELSE "EXTERNAL"]

\* RouteRules.route_query(query)
route_query(query) ==
    [intent |-> classify_intent(query), pipeline |-> "RAG"]

\* should_use_rag(state) of _build_graph: the node after route
should_use_rag(pipeline) ==
    IF pipeline = "RAG" THEN "retrieve" ELSE "external_knowledge"

----------------------------------------------------------------------------
(* Conversation memory: graph/memory.py *)

UserIds == { <<"a">>, <<"a", ":", "b">> }
SessionIds == { <<"c">>, <<"b", ":", "c">> }
SessionPairs == (UserIds \X SessionIds) \ { << <<"a", ":", "b">>, <<"b", ":", "c">> >> }

Roles == {"user", "assistant"}
MemContents == {"x"}

\* f"chatbot:{user_id}:{session_id}"
_get_redis_key(user_id, session_id) ==
    <<"chatbot", ":">> \o user_id \o <<":">> \o session_id

KeyOf(pair) == _get_redis_key(pair[1], pair[2])

RedisKeys == { KeyOf(p) : p \in SessionPairs }

\* _load_state: the stored list, or [] when the key is absent or the read fails
_load_state(store, redis_key, fails) ==
    IF fails \/ redis_key \notin DOMAIN store THEN <<>> ELSE store[redis_key]

\* _save_state: the store after the write; a failed write is only logged
_save_state(store, redis_key, messages, fails) ==
    IF fails THEN store
    ELSE [k \in DOMAIN store \cup {redis_key} |->
             IF k = redis_key THEN messages ELSE store[k]]

\* redis_client.delete(redis_key) / del _fallback_storage[redis_key]
DeleteKey(store, redis_key, fails) ==
    IF fails THEN store
    ELSE [k \in DOMAIN store \ {redis_key} |-> store[k]]

KeepSliceOldest(messages, n) ==
    IF n > 0 THEN SubSeq(messages, 1, IF n >= Len(messages) THEN Len(messages) ELSE n)
    ELSE IF n = 0 THEN messages
    ELSE DropFirst(messages, -n)

\* the slice messages[-(max_history * 2):] as Python evaluates it
KeepSlice(messages, n) ==
    IF n > 0 THEN LastN(messages, n)
    ELSE IF n = 0 THEN messages
    ELSE DropFirst(messages, -n)

TrimHistoryKeepsOneMore(messages, maxh) ==
    IF Len(messages) > maxh * 2 + 1
    THEN KeepSlice(messages, maxh * 2 + 1)
    ELSE messages

\* add_message, lines 127-130: trim when the list exceeds max_history * 2
TrimHistory(messages, maxh) ==
    IF Len(messages) > maxh * 2
    THEN KeepSlice(messages, maxh * 2)
    ELSE messages

Message(role, content) == [role |-> role, content |-> content]

AppendedMessagesTrimFirst(messages, role, content, maxh) ==
    Append(TrimHistory(messages, maxh), Message(role, content))

\* the list add_message writes back
AppendedMessages(messages, role, content, maxh) ==
    TrimHistory(Append(messages, Message(role, content)), maxh)

\* get_history on a successful read (role and content only)
Simplified(messages) ==
    [i \in 1..Len(messages) |->
        [role |-> messages[i].role, content |-> messages[i].content]]

HistoryOf(store, pair) == Simplified(_load_state(store, KeyOf(pair), FALSE))

\* the other pairs whose history differs between two stores
OthersChanged(pair, store, store2) ==
    { q \in SessionPairs \ {pair} : HistoryOf(store2, q) # HistoryOf(store, q) }

\* a store failure can only happen with a Redis connection
FailChoices == IF redis_client THEN BOOLEAN ELSE {FALSE}

MemGhostInit ==
    /\ mem_log = [k \in RedisKeys |-> <<>>]
    /\ mem_fault = [k \in RedisKeys |-> FALSE]
    /\ mem_cleared = {}
    /\ mem_last = [op |-> "none"]
    /\ mem_ops = 0

MemoryInit ==
    /\ max_history \in (-1)..MaxHistoryBound
    /\ redis_client \in BOOLEAN
    /\ redis_store = <<>>
    /\ MemGhostInit

\* ConversationMemory.add_message(user_id, session_id, role, content)
AddMessage(pair, role, content, loadFails, saveFails) ==
    LET redis_key == KeyOf(pair)
        messages == _load_state(redis_store, redis_key, loadFails)
        kept == AppendedMessages(messages, role, content, max_history)
    IN  /\ mem_ops < MaxMemOps
        /\ redis_store' = _save_state(redis_store, redis_key, kept, saveFails)
        /\ mem_log' = [mem_log EXCEPT ![redis_key] =
                          Append(@, Message(role, content))]
        /\ mem_fault' = [mem_fault EXCEPT ![redis_key] =
                          @ \/ loadFails \/ saveFails]
        /\ mem_cleared' = mem_cleared \ {pair}
        /\ mem_last' = [op |-> "append", pair |-> pair,
                        changed |-> OthersChanged(pair, redis_store, redis_store')]
        /\ mem_ops' = mem_ops + 1
        /\ UNCHANGED <<max_history, redis_client, pipeVars>>

\* ConversationMemory.clear_session(user_id, session_id)
ClearSession(pair, deleteFails) ==
    LET redis_key == KeyOf(pair)
    IN  /\ mem_ops < MaxMemOps
        /\ redis_store' = DeleteKey(redis_store, redis_key, deleteFails)
        /\ mem_log' = [mem_log EXCEPT ![redis_key] = <<>>]
        /\ mem_fault' = [mem_fault EXCEPT ![redis_key] = deleteFails]
        /\ mem_cleared' = mem_cleared \cup {pair}
        /\ mem_last' = [op |-> "clear", pair |-> pair,
                        changed |-> OthersChanged(pair, redis_store, redis_store')]
        /\ mem_ops' = mem_ops + 1
        /\ UNCHANGED <<max_history, redis_client, pipeVars>>

\* ConversationMemory.get_history(user_id, session_id)
GetHistory(pair, loadFails) ==
    LET messages == _load_state(redis_store, KeyOf(pair), loadFails)
    IN  /\ mem_ops < MaxMemOps
        /\ mem_last' = [op |-> "history", pair |-> pair,
                        result |-> Simplified(messages)]
        /\ mem_ops' = mem_ops + 1
        /\ UNCHANGED <<pipeVars, max_history, redis_client, redis_store, mem_log,
                       mem_fault, mem_cleared>>

MemAdd ==
    \E pair \in SessionPairs, role \in Roles, content \in MemContents,
       loadFails \in FailChoices, saveFails \in FailChoices :
        AddMessage(pair, role, content, loadFails, saveFails)

MemClear ==
    \E pair \in SessionPairs, deleteFails \in FailChoices :
        ClearSession(pair, deleteFails)

MemHistory ==
    \E pair \in SessionPairs, loadFails \in FailChoices :
        GetHistory(pair, loadFails)

----------------------------------------------------------------------------
(* Auto-ingestion: Retriever.ingest_qa_pair *)

IsDuplicateStrict(search_results, similarity_threshold) ==
    \E i \in 1..Len(search_results) :
        search_results[i].score > similarity_threshold

\* lines 217-227: some result of the duplicate check reaches the threshold
IsDuplicate(search_results, similarity_threshold) ==
    \E i \in 1..Len(search_results) :
        search_results[i].score >= similarity_threshold

DuplicateFoundOrSearchFailed(store, vector, searchFails) ==
    \/ searchFails
    \/ IsDuplicate(query_points(store, vector, DedupSearchLimit, GeneratedQA),
                   DedupThreshold)

\* lines 196-231: the duplicate check finds an entry; a failed search finds none
DuplicateFound(store, vector, searchFails) ==
    /\ ~searchFails
    /\ IsDuplicate(query_points(store, vector, DedupSearchLimit, GeneratedQA),
                   DedupThreshold)

----------------------------------------------------------------------------
(* The pipeline: graph/nodes.py, graph/build_graph.py, main.py *)

Workers == 1..MaxWorkers

\* the answers handed to ingest_qa_pair when it is called on its own
IngestAnswers == { <<"w">>, <<"I", " ", "w">> }

\* get_formatted_history: "User: ..." / "Assistant: ..." lines joined by newlines
get_formatted_history(history) ==
    Join([i \in 1..Len(history) |->
             <<IF history[i].role = "user" THEN "User:" ELSE "Assistant:">>
             \o history[i].content],
         "NL")

\* the (user_id, session_id) pairs of the requests: two pairs with one key
RequestPairs == { p \in SessionPairs : \E q \in SessionPairs \ {p} : KeyOf(q) = KeyOf(p) }

\* the queries of the requests, an empty and a whitespace-only one included
RequestQueries == Queries \cup { <<>>, <<" ">> }

\* the ids of the requests of one session, and of requests with a missing
\* user id or a missing session id
RequestIds ==
    { << <<"a">>, <<"b", ":", "c">> >>, << <<>>, <<"c">> >>, << <<"a">>, <<>> >> }

IdleRun ==
    [pc |-> "idle", query |-> <<>>, pair |-> <<>>, formatted_history |-> <<>>,
     intent |-> "", pipeline |-> "", retrieved_docs |-> <<>>,
     retrieval_valid |-> FALSE, filtered_docs |-> <<>>, answer |-> <<>>,
     result |-> <<>>, vector |-> 0, messages |-> <<>>, caller |-> "node",
     path |-> <<>>, llm_calls |-> <<>>, llm_outputs |-> <<>>,
     ingest_calls |-> <<>>, known |-> {}, store_failed |-> FALSE]

Flag(b) == IF b THEN 1 ELSE 0

\* the failures still allowed
FaultChoices == IF faults < MaxFaults THEN BOOLEAN ELSE {FALSE}

Enter(run, node) == [run EXCEPT !.path = Append(@, node)]

\* the state before the first request: an empty or a populated collection
InitialStores(embed) ==
    { <<>>,
      <<CuratedPoint(75)>>,
      <<CuratedPoint(60),
        QAPoint(<<"What", "is", "stipend", "?">>, <<"w", " ", "w">>,
                embed[<<"What", "is", "stipend", "?">>])>> }

\* no stream is open
NoStream ==
    [pc |-> "none", query |-> <<>>, pair |-> <<>>, events |-> <<>>,
     keepalive_count |-> 0, result_queue |-> <<>>, worker |-> "none",
     taken |-> <<>>]

\* no request is in hand
NoRequest ==
    [endpoint |-> "none", shape |-> "none", pair |-> << <<>>, <<>> >>,
     query |-> <<>>]

\* no response has been sent
NoResponse ==
    [status |-> 0, code |-> "", content_type |-> "", text |-> <<>>,
     history |-> <<>>]

\* a service process: the service it runs, whether its global chatbot is set,
\* the RAGChatbot instances constructed so far, where each request thread is
\* in initialize_chatbot, the request whose query is running, the last
\* request answered and its response
HttpState(service, chatbot) ==
    [service |-> service, chatbot |-> chatbot, instances |-> Flag(chatbot),
     threads |-> [t \in Workers |-> "idle"], pending |-> NoRequest,
     request |-> NoRequest, response |-> NoResponse, handled |-> 0]

PipeIdle ==
    /\ sse = NoStream
    /\ http = HttpState("none", TRUE)
    /\ embedding = [t \in EmbedTexts |-> 0]
    /\ qdrant = <<>>
    /\ runs = [r \in Workers |-> IdleRun]
    /\ started = 0
    /\ faults = 0

PipeInit ==
    /\ sse = NoStream
    /\ http = HttpState("none", TRUE)
    /\ embedding \in EmbeddingModels
    /\ qdrant \in InitialStores(embedding)
    /\ runs = [r \in Workers |-> IdleRun]
    /\ started = 0
    /\ faults = 0
    /\ max_history = MaxHistoryBound
    /\ redis_client = TRUE
    /\ redis_store = <<>>
    /\ MemGhostInit

\* ghost: the answers ingested so far for the question
StoredAnswers(store, question) ==
    { store[i].payload.answer :
        i \in { j \in 1..Len(store) :
                   /\ store[j].payload.document_type = GeneratedQA
                   /\ store[j].payload.question = question } }

IsBlankQueryOnlyIfEmpty(user_query) == user_query = <<>>

\* main.py line 87: not user_query or not user_query.strip()
IsBlankQuery(user_query) == user_query = <<>> \/ strip(user_query) = <<>>

\* main.py line 90: not user_id or not session_id (a missing id is the empty id)
IdsMissing(pair) == pair[1] = <<>> \/ pair[2] = <<>>

\* main.py lines 87-91: the text returned for a request that is refused
Refusal(user_query, pair) ==
    IF IsBlankQuery(user_query) THEN <<"Please provide a valid question.">>
    ELSE IF IdsMissing(pair) THEN <<"User ID and session ID are required.">>
    ELSE <<>>

\* RAGChatbot.query and ChatbotGraph.execute up to graph.invoke
StartRun(r, query, pair, loadFails) ==
    /\ runs[r].pc \in {"idle", "done"}
    /\ started < MaxRuns
    /\ Refusal(query, pair) # <<>> => ~loadFails
    /\ runs' = [runs EXCEPT ![r] =
                  IF Refusal(query, pair) # <<>>
                  THEN [IdleRun EXCEPT !.pc = "done", !.caller = "refused",
                                       !.result = Refusal(query, pair)]
                  ELSE [IdleRun EXCEPT
                          !.pc = "route", !.query = query, !.pair = pair,
                          !.known = StoredAnswers(qdrant, query),
                          !.formatted_history =
                              get_formatted_history(
                                  Simplified(_load_state(redis_store, KeyOf(pair),
                                                         loadFails))),
                          !.store_failed = loadFails]]
    /\ started' = started + 1
    /\ faults' = faults + Flag(loadFails)
    /\ UNCHANGED <<embedding, qdrant, memVars, sse>>

\* GraphNodes.route_node and the conditional edge after it
RouteNode(r) ==
    /\ runs[r].pc = "route"
    /\ LET routing_info == route_query(runs[r].query)
       IN  runs' = [runs EXCEPT ![r] =
                      [Enter(@, "route") EXCEPT
                         !.intent = routing_info.intent,
                         !.pipeline = routing_info.pipeline,
                         !.pc = should_use_rag(routing_info.pipeline)]]
    /\ UNCHANGED <<embedding, qdrant, started, faults, memVars, sse, http>>

\* GraphNodes.retrieve_node
RetrieveNode(r, fails) ==
    /\ runs[r].pc = "retrieve"
    /\ runs' = [runs EXCEPT ![r] =
                  [Enter(@, "retrieve") EXCEPT
                     !.retrieved_docs =
                         retrieve(qdrant, embedding, runs[r].query, fails),
                     !.pc = "validate"]]
    /\ faults' = faults + Flag(fails)
    /\ UNCHANGED <<embedding, qdrant, started, memVars, sse, http>>

\* GraphNodes.validate_node
ValidateNode(r) ==
    /\ runs[r].pc = "validate"
    /\ LET is_valid == validate_retrieval(runs[r].retrieved_docs)
       IN  runs' = [runs EXCEPT ![r] =
                      [Enter(@, "validate") EXCEPT
                         !.retrieval_valid = is_valid,
                         !.filtered_docs =
                             IF is_valid
                             THEN filter_by_threshold(runs[r].retrieved_docs)
                             ELSE <<>>,
                         !.pc = "rag_answer"]]
    /\ UNCHANGED <<embedding, qdrant, started, faults, memVars, sse, http>>

IsCachedHitStrict(doc) ==
    /\ doc.metadata.document_type = GeneratedQA
    /\ doc.similarity_score > EXACT_MATCH_THRESHOLD
    /\ doc.metadata.answer # <<>>

\* rag_answer_node, lines 142-149: the document is a usable cached answer
IsCachedHit(doc) ==
    /\ doc.metadata.document_type = GeneratedQA
    /\ doc.similarity_score >= EXACT_MATCH_THRESHOLD
    /\ doc.metadata.answer # <<>>

\* rag_answer_node, lines 141-152: the loop returns at the first usable document
CachedHits(filtered_docs) ==
    { i \in 1..Len(filtered_docs) : IsCachedHit(filtered_docs[i]) }

FirstCachedHit(filtered_docs) ==
    CHOOSE i \in CachedHits(filtered_docs) :
        \A j \in CachedHits(filtered_docs) : i <= j

\* Retriever.format_retrieved_context(retrieved_docs)
format_retrieved_context(retrieved_docs) ==
    Join([i \in 1..Len(retrieved_docs) |->
             <<"[Company]:", retrieved_docs[i].metadata.company,
               "[Document Type]:", retrieved_docs[i].metadata.document_type,
               "[Source]:", retrieved_docs[i].metadata.source, "Content:">>
             \o retrieved_docs[i].content],
         "---")

\* rag_answer_node, lines 134-152: a cached answer is returned directly
RagCachedAnswer(r) ==
    /\ runs[r].pc = "rag_answer"
    /\ runs[r].retrieval_valid
    /\ CachedHits(runs[r].filtered_docs) # {}
    /\ runs' = [runs EXCEPT ![r] =
                  [Enter(@, "rag_answer") EXCEPT
                     !.answer = runs[r].filtered_docs[
                                    FirstCachedHit(runs[r].filtered_docs)
                                ].metadata.answer,
                     !.pc = "memory"]]
    /\ UNCHANGED <<embedding, qdrant, started, faults, memVars, sse, http>>

\* rag_answer_node, lines 154-168: the answer is generated from the context
RagGenerate(r, text) ==
    /\ runs[r].pc = "rag_answer"
    /\ runs[r].retrieval_valid
    /\ CachedHits(runs[r].filtered_docs) = {}
    /\ runs' = [runs EXCEPT ![r] =
                  [Enter(@, "rag_answer") EXCEPT
                     !.llm_calls = Append(@,
                         RagPrompt(format_retrieved_context(runs[r].filtered_docs),
                                   runs[r].query, runs[r].formatted_history)),
                     !.llm_outputs = Append(@, text),
                     !.answer = text,
                     !.pc = "memory"]]
    /\ UNCHANGED <<embedding, qdrant, started, faults, memVars, sse, http>>

AfterIngestSkipsMemory(run) == IF run.caller = "direct" THEN "done" ELSE "return"

\* where a call of ingest_qa_pair returns to
AfterIngest(run) == IF run.caller = "direct" THEN "done" ELSE "memory"

\* ingest_qa_pair, lines 185-194: the guard and the embedding of the question;
\* the call is recorded with what the collection held when it was made
IngestEntry(run, question, answer, embedFails) ==
    LET refused == question = <<>> \/ answer = <<>> \/ embedFails
        vector == IF refused THEN 0 ELSE embedding[question]
        call == [question |-> question, answer |-> answer,
                 ret |-> IF refused THEN "False" ELSE "pending",
                 stored |-> FALSE,
                 embed_failed |-> embedFails, search_failed |-> FALSE,
                 duplicate_existed |->
                     /\ question \in DOMAIN embedding
                     /\ \E i \in 1..Len(qdrant) :
                            /\ qdrant[i].payload.document_type = GeneratedQA
                            /\ Score(qdrant[i].vector, embedding[question])
                                   >= DedupThreshold]
    IN  [run EXCEPT !.vector = vector,
                    !.ingest_calls = Append(@, call),
                    !.pc = IF refused THEN AfterIngest(run) ELSE "ingest_search"]

\* rag_answer_node, lines 129-132, and external_knowledge_node up to the call
\* of ingest_qa_pair (lines 182-199)
ExternalGenerate(r, text, embedFails) ==
    /\ \/ runs[r].pc = "rag_answer" /\ ~runs[r].retrieval_valid
       \/ runs[r].pc = "external_knowledge"
    /\ LET node == IF runs[r].pc = "rag_answer" THEN "rag_answer"
                   ELSE "external_knowledge"
           generated ==
               [Enter(runs[r], node) EXCEPT
                  !.llm_calls = Append(@,
                      ResponsePrompt(runs[r].query, runs[r].formatted_history)),
                  !.llm_outputs = Append(@, text),
                  !.answer = text]
       IN  runs' = [runs EXCEPT ![r] =
                      IngestEntry(generated, runs[r].query, text, embedFails)]
    /\ faults' = faults + Flag(embedFails)
    /\ UNCHANGED <<embedding, qdrant, started, memVars, sse, http>>

\* Retriever.ingest_qa_pair(question, answer) called on its own
IngestCall(r, question, answer, embedFails) ==
    /\ runs[r].pc \in {"idle", "done"}
    /\ \A w \in Workers : w < r => runs[w].pc \notin {"idle", "done"}
    /\ started < MaxCalls
    /\ runs' = [runs EXCEPT ![r] =
                  IngestEntry([IdleRun EXCEPT !.caller = "direct"],
                              question, answer, embedFails)]
    /\ started' = started + 1
    /\ faults' = faults + Flag(embedFails)
    /\ UNCHANGED <<embedding, qdrant, memVars, sse, http>>

\* ingest_qa_pair, lines 196-231: the duplicate check
IngestSearch(r, searchFails) ==
    /\ runs[r].pc = "ingest_search"
    /\ LET dup == DuplicateFound(qdrant, runs[r].vector, searchFails)
           n == Len(runs[r].ingest_calls)
       IN  runs' = [runs EXCEPT ![r] =
                      IF dup
                      THEN [@ EXCEPT !.ingest_calls[n].ret = "True",
                                     !.pc = AfterIngest(runs[r])]
                      ELSE [@ EXCEPT !.ingest_calls[n].search_failed =
                                         searchFails,
                                     !.pc = "ingest_upsert"]]
    /\ faults' = faults + Flag(searchFails)
    /\ UNCHANGED <<embedding, qdrant, started, memVars, sse, http>>

\* ingest_qa_pair, lines 233-271: the new point is written
IngestUpsert(r, upsertFails) ==
    /\ runs[r].pc = "ingest_upsert"
    /\ LET n == Len(runs[r].ingest_calls)
           call == runs[r].ingest_calls[n]
       IN  /\ qdrant' = IF upsertFails THEN qdrant
                        ELSE Append(qdrant, QAPoint(call.question, call.answer,
                                                    runs[r].vector))
           /\ runs' = [runs EXCEPT ![r] =
                         [@ EXCEPT !.ingest_calls[n].ret =
                                       IF upsertFails THEN "False" ELSE "True",
                                   !.ingest_calls[n].stored = ~upsertFails,
                                   !.pc = AfterIngest(runs[r])]]
    /\ faults' = faults + Flag(upsertFails)
    /\ UNCHANGED <<embedding, started, memVars, sse, http>>

\* memory_node, lines 221-228, and add_message up to its write (lines 116-130)
MemoryLoad(r, loadFails) ==
    /\ runs[r].pc \in {"memory", "load_assistant"}
    /\ LET first == runs[r].pc = "memory"
           skip == first /\ (runs[r].query = <<>> \/ runs[r].answer = <<>>)
           messages == _load_state(redis_store, KeyOf(runs[r].pair), loadFails)
       IN  runs' = [runs EXCEPT ![r] =
                      IF skip
                      THEN [Enter(@, "memory") EXCEPT !.pc = "return"]
                      ELSE [(IF first THEN Enter(@, "memory") ELSE @) EXCEPT
                              !.messages =
                                  IF first
                                  THEN AppendedMessages(messages, "user",
                                           runs[r].query, max_history)
                                  ELSE AppendedMessages(messages, "assistant",
                                           runs[r].answer, max_history),
                              !.store_failed = @ \/ loadFails,
                              !.pc = IF first THEN "save_user"
                                     ELSE "save_assistant"]]
    /\ faults' = faults + Flag(loadFails)
    /\ UNCHANGED <<embedding, qdrant, started, memVars, sse, http>>

MemorySaveAtomic(r, saveFails) ==
    /\ runs[r].pc \in {"save_user", "save_assistant"}
    /\ redis_store' = _save_state(redis_store, KeyOf(runs[r].pair),
                                  TrimHistory(Append(_load_state(redis_store,
                                                         KeyOf(runs[r].pair), FALSE),
                                                     Last(runs[r].messages)),
                                              max_history),
                                  saveFails)
    /\ runs' = [runs EXCEPT ![r] =
                  [@ EXCEPT !.store_failed = @ \/ saveFails,
                            !.pc = IF runs[r].pc = "save_user"
                                   THEN "load_assistant" ELSE "return"]]
    /\ faults' = faults + Flag(saveFails)
    /\ UNCHANGED <<embedding, qdrant, started, max_history, redis_client,
                   memGhost, sse, http>>

\* add_message, line 132: the list is written back
MemorySave(r, saveFails) ==
    /\ runs[r].pc \in {"save_user", "save_assistant"}
    /\ redis_store' = _save_state(redis_store, KeyOf(runs[r].pair),
                                  runs[r].messages, saveFails)
    /\ runs' = [runs EXCEPT ![r] =
                  [@ EXCEPT !.store_failed = @ \/ saveFails,
                            !.pc = IF runs[r].pc = "save_user"
                                   THEN "load_assistant" ELSE "return"]]
    /\ faults' = faults + Flag(saveFails)
    /\ UNCHANGED <<embedding, qdrant, started, max_history, redis_client,
                   memGhost, sse, http>>

\* ChatbotGraph.execute, lines 154-160: the answer is cleaned and returned
Return(r) ==
    /\ runs[r].pc = "return"
    /\ runs' = [runs EXCEPT ![r] =
                  [@ EXCEPT !.result = _clean_response(runs[r].answer),
                            !.pc = "done"]]
    /\ UNCHANGED <<embedding, qdrant, started, faults, memVars, sse, http>>

\* every worker is between two requests
Quiet == \A w \in Workers : runs[w].pc \in {"idle", "done"}

\* a request goes to the first thread that is free
FirstFree(r) == \A w \in Workers : w < r => runs[w].pc \notin {"idle", "done"}

Start == \E r \in Workers, query \in RequestQueries, pair \in RequestIds,
            loadFails \in FaultChoices :
             /\ Quiet
             /\ FirstFree(r)
             /\ StartRun(r, query, pair, loadFails)
             /\ UNCHANGED http
Route == \E r \in Workers : RouteNode(r)
Retrieve == \E r \in Workers, fails \in FaultChoices : RetrieveNode(r, fails)
Validate == \E r \in Workers : ValidateNode(r)
CachedAnswer == \E r \in Workers : RagCachedAnswer(r)
Generate == \E r \in Workers, text \in LLMTexts : RagGenerate(r, text)
External == \E r \in Workers, text \in LLMTexts, embedFails \in FaultChoices :
                ExternalGenerate(r, text, embedFails)
Search == \E r \in Workers, searchFails \in FaultChoices :
              IngestSearch(r, searchFails)
Upsert == \E r \in Workers, upsertFails \in FaultChoices :
              IngestUpsert(r, upsertFails)
MemLoad == \E r \in Workers, loadFails \in FaultChoices :
               MemoryLoad(r, loadFails)
MemSave == \E r \in Workers, saveFails \in FaultChoices :
               MemorySave(r, saveFails)
Finish == \E r \in Workers : Return(r)
Ingest == \E r \in Workers, question \in Queries, answer \in IngestAnswers,
             embedFails \in FaultChoices :
              IngestCall(r, question, answer, embedFails)

Next ==
    \/ Start \/ Route \/ Retrieve \/ Validate \/ CachedAnswer \/ Generate
    \/ External \/ Search \/ Upsert \/ MemLoad \/ MemSave \/ Finish

\* the service answering one request after the other
Spec == PipeInit /\ [][Next]_vars

\* RAGChatbot.query for one session and queries of two intents
StartRouted ==
    \E query \in Queries \cup {CodingQuery}, loadFails \in FaultChoices :
        /\ Quiet
        /\ started < MaxRoutedRuns
        /\ StartRun(1, query, << <<"a">>, <<"c">> >>, loadFails)
        /\ UNCHANGED http

RouteNext ==
    \/ StartRouted \/ Route \/ Retrieve \/ Validate \/ CachedAnswer \/ Generate
    \/ External \/ Search \/ Upsert \/ MemLoad \/ MemSave \/ Finish

\* the service answering the queries of one session, whatever their intent
SpecRoute == PipeInit /\ [][RouteNext]_vars

IngestNext == Ingest \/ Search \/ Upsert

\* ingest_qa_pair called from up to MaxWorkers request threads at once
SpecIngest == PipeInit /\ [][IngestNext]_vars

----------------------------------------------------------------------------
(* The SSE endpoint: chatbot_service_sse.py, generate_sse_response *)

Event(type, content) == [type |-> type, content |-> content]

ChunkEvents(chunks) == [i \in 1..Len(chunks) |-> Event("chunk", chunks[i])]

KeepaliveAllowedBelowCap(keepalive_count) == keepalive_count < MaxKeepalives

\* line 142: the keepalive is still within the budget
KeepaliveAllowed(keepalive_count) == keepalive_count <= MaxKeepalives

SuccessEventsDoneFirst(result) ==
    <<Event("done", <<>>)>>
    \o (IF result # <<>> /\ strip(result) # <<>>
        THEN ChunkEvents(chunk_text(result, ChunkSize))
        ELSE <<Event("chunk", <<"apology">>)>>)

\* lines 127-137: what the loop emits for a result taken from the queue
SuccessEvents(result) ==
    (IF result # <<>> /\ strip(result) # <<>>
     THEN ChunkEvents(chunk_text(result, ChunkSize))
     ELSE <<Event("chunk", <<"apology">>)>>)
    \o <<Event("done", <<>>)>>

\* lines 149-158: what is emitted for the result found after the loop
FinalEvents(status, result) ==
    IF status = "success" /\ result # <<>>
    THEN ChunkEvents(chunk_text(result, ChunkSize)) \o <<Event("done", <<>>)>>
    ELSE IF status = "error"
         THEN <<Event("error", result)>>
         ELSE <<>>

SseInit ==
    /\ sse = [NoStream EXCEPT !.pc = "init"]
    /\ http = HttpState("sse", TRUE)
    /\ embedding \in EmbeddingModels
    /\ qdrant \in InitialStores(embedding)
    /\ runs = [r \in Workers |-> IdleRun]
    /\ started = 0
    /\ faults = 0
    /\ max_history = MaxHistoryBound
    /\ redis_client = TRUE
    /\ redis_store = <<>>
    /\ MemGhostInit

\* lines 110-118: the start event is sent and the worker thread is started
SseOpen(query, pair) ==
    /\ sse.pc = "init"
    /\ sse' = [sse EXCEPT !.pc = "check", !.query = query, !.pair = pair,
                          !.events = <<Event("start", <<>>)>>,
                          !.worker = "running"]
    /\ UNCHANGED <<embedding, qdrant, runs, started, faults, memVars, http>>

\* query_worker, lines 98-100: the worker calls bot.query
WorkerQuery(loadFails) ==
    /\ sse.worker = "running"
    /\ runs[1].pc = "idle"
    /\ StartRun(1, sse.query, sse.pair, loadFails)
    /\ UNCHANGED http

\* query_worker, lines 101-107: the worker raises and queues the error
WorkerRaise ==
    /\ sse.worker = "running"
    /\ runs[1].pc = "idle"
    /\ sse' = [sse EXCEPT
                 !.result_queue = Append(@, <<"error", <<"exception">>>>),
                 !.worker = "exiting"]
    /\ UNCHANGED <<embedding, qdrant, runs, started, faults, memVars, http>>

\* query_worker, line 101: the worker queues the answer of bot.query
WorkerPut ==
    /\ sse.worker = "running"
    /\ runs[1].pc = "done"
    /\ sse' = [sse EXCEPT
                 !.result_queue = Append(@, <<"success", runs[1].result>>),
                 !.worker = "exiting"]
    /\ UNCHANGED <<embedding, qdrant, runs, started, faults, memVars, http>>

\* the worker thread ends
WorkerExit ==
    /\ sse.worker = "exiting"
    /\ sse' = [sse EXCEPT !.worker = "dead"]
    /\ UNCHANGED <<embedding, qdrant, runs, started, faults, memVars, http>>

\* line 118: worker.is_alive() holds and the loop body is entered
SseLoop ==
    /\ sse.pc = "check"
    /\ sse.worker # "dead"
    /\ sse' = [sse EXCEPT !.pc = "get"]
    /\ UNCHANGED <<embedding, qdrant, runs, started, faults, memVars, http>>

\* lines 120-137: result_queue.get returns the worker's result
SseGet ==
    /\ sse.pc = "get"
    /\ sse.result_queue # <<>>
    /\ LET status == Head(sse.result_queue)[1]
           result == Head(sse.result_queue)[2]
       IN  sse' = [sse EXCEPT
                     !.result_queue = Tail(@),
                     !.taken = <<status, result>>,
                     !.events = @ \o (IF status = "error"
                                      THEN <<Event("error", result)>>
                                      ELSE SuccessEvents(result)),
                     !.pc = "closed"]
    /\ UNCHANGED <<embedding, qdrant, runs, started, faults, memVars, http>>

SseEmptyKeepsLooping ==
    /\ sse.pc = "get"
    /\ sse.result_queue = <<>>
    /\ LET keepalive_count == sse.keepalive_count + 1
       IN  sse' = IF KeepaliveAllowed(keepalive_count)
                  THEN [sse EXCEPT !.keepalive_count = keepalive_count,
                                   !.events = Append(@, Event("keepalive", <<>>)),
                                   !.pc = "check"]
                  ELSE [sse EXCEPT !.keepalive_count = keepalive_count,
                                   !.events = Append(@, Event("error", <<"timeout">>)),
                                   !.pc = "check"]
    /\ UNCHANGED <<embedding, qdrant, runs, started, faults, memVars, http>>

\* lines 139-147: result_queue.get times out after two seconds
SseEmpty ==
    /\ sse.pc = "get"
    /\ sse.result_queue = <<>>
    /\ LET keepalive_count == sse.keepalive_count + 1
       IN  sse' = IF KeepaliveAllowed(keepalive_count)
                  THEN [sse EXCEPT !.keepalive_count = keepalive_count,
                                   !.events = Append(@, Event("keepalive", <<>>)),
                                   !.pc = "check"]
                  ELSE [sse EXCEPT !.keepalive_count = keepalive_count,
                                   !.events = Append(@, Event("error", <<"timeout">>)),
                                   !.pc = "closed"]
    /\ UNCHANGED <<embedding, qdrant, runs, started, faults, memVars, http>>

\* lines 118 and 149-158: the worker has ended and the loop is left
SseFinal ==
    /\ sse.pc = "check"
    /\ sse.worker = "dead"
    /\ sse' = IF sse.result_queue # <<>>
              THEN [sse EXCEPT
                      !.result_queue = Tail(@),
                      !.taken = Head(sse.result_queue),
                      !.events = @ \o FinalEvents(Head(sse.result_queue)[1],
                                                  Head(sse.result_queue)[2]),
                      !.pc = "closed"]
              ELSE [sse EXCEPT !.pc = "closed"]
    /\ UNCHANGED <<embedding, qdrant, runs, started, faults, memVars, http>>

Open == \E query \in Queries, pair \in RequestPairs : SseOpen(query, pair)
Work == \E loadFails \in FaultChoices : WorkerQuery(loadFails)

SseNext ==
    \/ Open \/ Work \/ WorkerRaise \/ WorkerPut \/ WorkerExit
    \/ SseLoop \/ SseGet \/ SseEmpty \/ SseFinal
    \/ Route \/ Retrieve \/ Validate \/ CachedAnswer \/ Generate
    \/ External \/ Search \/ Upsert \/ MemLoad \/ MemSave \/ Finish

\* one stream of /api/chatbot/query-stream and its worker thread
SpecSSE == SseInit /\ [][SseNext]_vars

----------------------------------------------------------------------------
(* The HTTP endpoints: chatbot_service.py ("sync"), chatbot_service_sse.py ("sse") *)

\* the routes a service registers: chatbot_service.py ("sync") has two
Endpoints(service) ==
    IF service = "sync" THEN {"/query", "/clear"}
    ELSE {"/query", "/query-stream", "/clear", "/history"}

ApiIds == { << <<"a">>, <<"c">> >>, << <<>>, <<"c">> >> }

\* the requests sent to an endpoint.  request.json is a JSON object or another
\* JSON value (a list, null), request.args of GET /history always a mapping; a
\* key that is absent reads as None, which the handlers treat like ""
Requests(service) ==
    { req \in [endpoint : Endpoints(service), shape : {"object", "array"},
               pair : ApiIds \cup {NoRequest.pair},
               query : { <<"stipend">>, <<" ">>, <<>> }] :
        /\ req.endpoint = "/history" => req.shape = "object"
        /\ req.shape = "object" => req.pair \in ApiIds
        /\ req.shape = "array" => req.pair = NoRequest.pair /\ req.query = <<>>
        /\ req.endpoint \in {"/clear", "/history"} => req.query = <<>> }

\* data.get(...) and the two checks of a handler: "raise" when data has no
\* get, else the check that rejects the request, else "ok"
Validation(req, needsQuery) ==
    IF req.shape # "object" THEN "raise"
    ELSE IF IdsMissing(req.pair) THEN "ids"
    ELSE IF needsQuery /\ IsBlankQuery(req.query) THEN "query"
    ELSE "ok"

\* jsonify({"error": ..., "code": ...}), status; chatbot_service.py sends
\* "error" only
ErrorResponse(service, status) ==
    [NoResponse EXCEPT
       !.status = status,
       !.code = IF service = "sync" THEN ""
                ELSE IF status = 400 THEN "VALIDATION_ERROR"
                ELSE "INTERNAL_ERROR",
       !.content_type = "application/json"]

\* the response a handler returns for the request
Respond(req, response) ==
    [http EXCEPT !.pending = NoRequest, !.request = req,
                 !.response = response, !.handled = @ + 1]

\* the response to a request that does not get past the checks or
\* past initialize_chatbot()
Rejected(req, needsQuery, initFails) ==
    LET v == Validation(req, needsQuery)
    IN  IF v = "raise" \/ (v = "ok" /\ initFails)
        THEN ErrorResponse(http.service, 500)
        ELSE ErrorResponse(http.service, 400)

\* a request arrives between two others
Arrives(req, endpoint, needsQuery, initFails) ==
    /\ http.pending = NoRequest
    /\ sse.pc = "none"
    /\ Quiet
    /\ http.handled < MaxRequests
    /\ req.endpoint = endpoint
    /\ initFails => ~http.chatbot /\ Validation(req, needsQuery) = "ok"

\* query() of either service, up to the call of bot.query
ApiQuery ==
    \E req \in Requests(http.service), initFails \in FaultChoices,
       loadFails \in FaultChoices :
        /\ Arrives(req, "/query", TRUE, initFails)
        /\ IF Validation(req, TRUE) = "ok" /\ ~initFails
           THEN /\ StartRun(1, req.query, req.pair, loadFails)
                /\ http' = [http EXCEPT !.chatbot = TRUE,
                                            !.instances = @ + Flag(~http.chatbot),
                                            !.pending = req]
           ELSE /\ ~loadFails
                /\ http' = Respond(req, Rejected(req, TRUE, initFails))
                /\ faults' = faults + Flag(initFails)
                /\ UNCHANGED <<embedding, qdrant, runs, started, memVars, sse>>

\* query(), from the return of bot.query
ApiQueryReturn ==
    /\ http.pending.endpoint = "/query"
    /\ runs[1].pc = "done"
    /\ http' = Respond(http.pending,
                       [NoResponse EXCEPT !.status = 200,
                                          !.content_type = "application/json",
                                          !.text = runs[1].result])
    /\ UNCHANGED <<embedding, qdrant, runs, started, faults, memVars, sse>>

\* query_stream(): the generator is handed to Flask, which runs it afterwards
ApiQueryStream ==
    \E req \in Requests(http.service) :
        /\ Arrives(req, "/query-stream", TRUE, FALSE)
        /\ IF Validation(req, TRUE) = "ok"
           THEN /\ http' = Respond(req, [NoResponse EXCEPT
                                           !.status = 200,
                                           !.content_type = "text/event-stream"])
                /\ sse' = [NoStream EXCEPT !.pc = "init", !.query = req.query,
                                           !.pair = req.pair]
           ELSE /\ http' = Respond(req, Rejected(req, TRUE, FALSE))
                /\ UNCHANGED sse
        /\ UNCHANGED <<embedding, qdrant, runs, started, faults, memVars>>

\* clear_session() of either service
ApiClear ==
    \E req \in Requests(http.service), initFails \in FaultChoices,
       deleteFails \in FaultChoices :
        /\ Arrives(req, "/clear", FALSE, initFails)
        /\ IF Validation(req, FALSE) = "ok" /\ ~initFails
           THEN /\ http' = [Respond(req, [NoResponse EXCEPT
                                            !.status = 200,
                                            !.content_type = "application/json"])
                              EXCEPT !.chatbot = TRUE,
                                     !.instances = @ + Flag(~http.chatbot)]
                /\ redis_store' = DeleteKey(redis_store, KeyOf(req.pair),
                                            deleteFails)
           ELSE /\ ~deleteFails
                /\ http' = Respond(req, Rejected(req, FALSE, initFails))
                /\ UNCHANGED redis_store
        /\ faults' = faults + Flag(initFails) + Flag(deleteFails)
        /\ UNCHANGED <<embedding, qdrant, runs, started, max_history,
                       redis_client, memGhost, sse>>

\* get_history()
ApiHistory ==
    \E req \in Requests(http.service), initFails \in FaultChoices,
       loadFails \in FaultChoices :
        /\ Arrives(req, "/history", FALSE, initFails)
        /\ IF Validation(req, FALSE) = "ok" /\ ~initFails
           THEN http' = [Respond(req, [NoResponse EXCEPT
                                         !.status = 200,
                                         !.content_type = "application/json",
                                         !.history =
                                             Simplified(_load_state(redis_store,
                                                 KeyOf(req.pair), loadFails))])
                           EXCEPT !.chatbot = TRUE,
                                  !.instances = @ + Flag(~http.chatbot)]
           ELSE /\ ~loadFails
                /\ http' = Respond(req, Rejected(req, FALSE, initFails))
        /\ faults' = faults + Flag(initFails) + Flag(loadFails)
        /\ UNCHANGED <<embedding, qdrant, runs, started, memVars, sse>>

ApiInit ==
    /\ http \in { HttpState(service, chatbot) :
                    service \in {"sync", "sse"}, chatbot \in BOOLEAN }
    /\ sse = NoStream
    /\ embedding \in EmbeddingModels
    /\ qdrant \in InitialStores(embedding)
    /\ runs = [r \in Workers |-> IdleRun]
    /\ started = 0
    /\ faults = 0
    /\ max_history = MaxHistoryBound
    /\ redis_client = TRUE
    /\ redis_store = <<>>
    /\ MemGhostInit

ApiNext ==
    \/ ApiQuery \/ ApiQueryReturn \/ ApiQueryStream \/ ApiClear \/ ApiHistory
    \/ Route \/ Retrieve \/ Validate \/ CachedAnswer \/ Generate
    \/ External \/ Search \/ Upsert \/ MemLoad \/ MemSave \/ Finish

\* one service process answering one request after the other
SpecApi == ApiInit /\ [][ApiNext]_vars

----------------------------------------------------------------------------
(* Specifications *)

MemNext == MemAdd \/ MemClear \/ MemHistory

MemInit == MemoryInit /\ PipeIdle

\* conversation memory called directly, one call at a time
SpecMem == MemInit /\ [][MemNext]_vars

----------------------------------------------------------------------------
(* Claims about conversation memory, checked under SpecMem *)

\* the list stored under a key
Stored(k) == _load_state(redis_store, k, FALSE)

C7_KeysIsolateSessions ==
    mem_last.op \in {"append", "clear"} =>
        \A q \in SessionPairs \ {mem_last.pair} :
            /\ KeyOf(q) # KeyOf(mem_last.pair)
            /\ q \notin mem_last.changed

\* C8: after clear(u, s) the history returned for (u, s) is empty until the
\* next append to (u, s), and the clear leaves the history of every other
\* pair as it was.
C8_ClearEmptiesOnlyItsSession ==
    /\ (mem_last.op = "history" /\ mem_last.pair \in mem_cleared)
           => mem_last.result = <<>>
    /\ mem_last.op = "clear" => mem_last.changed = {}

\* the query runs that have returned
Returned == { r \in Workers : runs[r].pc = "done" /\ runs[r].caller = "node" }

\* the positions of the Generated Q&A items retrieval returned with a score
\* of at least the exact-match threshold
ExactMatches(r) ==
    { i \in 1..Len(runs[r].retrieved_docs) :
        /\ runs[r].retrieved_docs[i].metadata.document_type = GeneratedQA
        /\ runs[r].retrieved_docs[i].similarity_score >= EXACT_MATCH_THRESHOLD }

\* C1 as stated: whenever retrieval returned a Generated Q&A item scoring at
\* least the exact-match threshold, the returned answer is that item's stored
\* answer verbatim and the generative model was not called.
C1_AsStated ==
    \A r \in Returned : \A i \in ExactMatches(r) :
        /\ runs[r].result = runs[r].retrieved_docs[i].metadata.answer
        /\ runs[r].llm_calls = <<>>

\* C1: whenever retrieval returned a Generated Q&A item scoring at least the
\* exact-match threshold, the returned answer is the cleaned stored answer
\* (label lines removed, newline runs collapsed, stripped) of the first such
\* item in retrieval order, and the generative model was not called.
C1_CachedAnswerCleaned ==
    \A r \in Returned :
        ExactMatches(r) # {} =>
            LET first == CHOOSE i \in ExactMatches(r) :
                             \A j \in ExactMatches(r) : i <= j
            IN  /\ runs[r].result =
                       _clean_response(runs[r].retrieved_docs[first].metadata.answer)
                /\ runs[r].llm_calls = <<>>

C1_Witness ==
    \E r \in Returned :
        /\ ExactMatches(r) # {}
        /\ runs[r].llm_calls = <<>>
        /\ runs[r].result # <<>>
        /\ \E i \in ExactMatches(r) :
               runs[r].result # runs[r].retrieved_docs[i].metadata.answer

\* C2: whenever retrieval returned no item scoring at least the low threshold
\* (an empty result included), the run made exactly one call of the generative
\* model, with the question and the conversation history and no retrieved
\* context, and exactly one call of ingest, with the query and the generated
\* answer.
C2_FallbackGeneratesAndIngestsOnce ==
    \A r \in Returned :
        (\A i \in 1..Len(runs[r].retrieved_docs) :
            runs[r].retrieved_docs[i].similarity_score < SIMILARITY_THRESHOLD)
        => /\ runs[r].llm_calls =
                  << [call |-> "generate_response",
                      history |-> runs[r].formatted_history,
                      context |-> <<>>,
                      question |-> runs[r].query] >>
           /\ Len(runs[r].ingest_calls) = 1
           /\ runs[r].ingest_calls[1].question = runs[r].query
           /\ runs[r].ingest_calls[1].answer = runs[r].answer
           /\ runs[r].ingest_calls[1].ret # "pending"

C2_Witness ==
    \E r \in Returned :
        /\ runs[r].retrieved_docs # <<>>
        /\ \A i \in 1..Len(runs[r].retrieved_docs) :
               runs[r].retrieved_docs[i].similarity_score < SIMILARITY_THRESHOLD
        /\ runs[r].formatted_history # <<>>
        /\ Len(runs[r].ingest_calls) = 1
        /\ runs[r].ingest_calls[1].stored

\* the calls of ingest_qa_pair that have returned
IngestReturns ==
    { r \in Workers : /\ runs[r].ingest_calls # <<>>
                      /\ Last(runs[r].ingest_calls).ret # "pending" }

C10_NoDuplicateEntries ==
    faults = 0 =>
        \A i, j \in 1..Len(qdrant) :
            (/\ i < j
             /\ qdrant[i].payload.document_type = GeneratedQA
             /\ qdrant[j].payload.document_type = GeneratedQA)
            => Score(qdrant[i].vector, qdrant[j].vector) < DedupThreshold

\* the number of events of the stream whose type is in types
EventCount(types) ==
    Cardinality({ i \in 1..Len(sse.events) : sse.events[i].type \in types })

\* the dispatcher took an answer of the worker from the queue and has returned
AnswerStreamed ==
    /\ sse.pc = "closed"
    /\ sse.taken # <<>>
    /\ sse.taken[1] = "success"

\* C3 as stated: a stream that has ended carries exactly one start event, as
\* its first event, and exactly one terminal event (done or error), as its
\* last event.
C3_OneStartOneTerminal ==
    sse.pc = "closed" =>
        /\ sse.events # <<>>
        /\ sse.events[1].type = "start"
        /\ EventCount({"start"}) = 1
        /\ Last(sse.events).type \in {"done", "error"}
        /\ EventCount({"done", "error"}) = 1

C5_TimeoutAfterCap ==
    /\ EventCount({"keepalive"}) <= MaxKeepalives
    /\ (\E i \in 1..Len(sse.events) :
           sse.events[i] = [type |-> "error", content |-> <<"timeout">>])
       => /\ sse.pc = "closed"
          /\ Len(sse.events) = MaxKeepalives + 2
          /\ sse.events[1].type = "start"
          /\ \A i \in 2..(MaxKeepalives + 1) : sse.events[i].type = "keepalive"
          /\ Last(sse.events) = [type |-> "error", content |-> <<"timeout">>]

C5_Witness ==
    /\ sse.events # <<>>
    /\ Last(sse.events) = [type |-> "error", content |-> <<"timeout">>]
    /\ EventCount({"keepalive"}) = MaxKeepalives
    /\ sse.worker = "dead"
    /\ sse.result_queue # <<>>
    /\ sse.result_queue[1][1] = "success"

\* the positions of the items retrieval returned with a score of at least the
\* low threshold
Acceptable(r) ==
    { i \in 1..Len(runs[r].retrieved_docs) :
        runs[r].retrieved_docs[i].similarity_score >= SIMILARITY_THRESHOLD }

\* C11: whenever retrieval returned an item scoring at least the low threshold
\* and no Generated Q&A item scoring at least the exact-match threshold, the
\* generative model was called exactly once, with the conversation history and
\* a context built from exactly the items scoring at least the low threshold,
\* in retrieval order; its output is the answer of the run, and the text
\* returned is that output after cleaning.
C11_ContextFromAcceptableItems ==
    \A r \in Returned :
        (Acceptable(r) # {} /\ ExactMatches(r) = {}) =>
            /\ Len(runs[r].filtered_docs) = Cardinality(Acceptable(r))
            /\ \A i \in Acceptable(r) :
                   \E j \in 1..Len(runs[r].filtered_docs) :
                       runs[r].filtered_docs[j] = runs[r].retrieved_docs[i]
            /\ \A j \in 1..Len(runs[r].filtered_docs) :
                   runs[r].filtered_docs[j].similarity_score >= SIMILARITY_THRESHOLD
            /\ runs[r].llm_calls =
                   << [call |-> "generate_rag_answer",
                       history |-> runs[r].formatted_history,
                       context |-> format_retrieved_context(runs[r].filtered_docs),
                       question |-> runs[r].query] >>
            /\ Len(runs[r].llm_outputs) = 1
            /\ runs[r].answer = runs[r].llm_outputs[1]
            /\ runs[r].result = _clean_response(runs[r].llm_outputs[1])

C11_Witness ==
    \E r \in Returned :
        /\ ExactMatches(r) = {}
        /\ Acceptable(r) # {}
        /\ Cardinality(Acceptable(r)) < Len(runs[r].retrieved_docs)
        /\ runs[r].llm_calls # <<>>
        /\ runs[r].llm_calls[1].context # <<>>
        /\ runs[r].result # <<>>

\* C12 as stated: a query whose text was ingested with an answer by an earlier
\* fallback run is answered from the cache: the generative model is not called
\* and the text returned is a stored answer for that question (as stored, or
\* cleaned).
C12_IngestedQuestionIsCacheHit ==
    \A r \in Returned :
        runs[r].known # {} =>
            /\ runs[r].llm_calls = <<>>
            /\ \E a \in runs[r].known :
                   runs[r].result \in {a, _clean_response(a)}

\* C13 as stated: every query run that has returned handed a non-empty text
\* to its caller.
C13_ReturnedTextNonEmpty ==
    \A r \in Returned : runs[r].result # <<>>

\* the query runs that have returned after taking the fallback path
ReturnedFromFallback ==
    { r \in Returned : runs[r].ingest_calls # <<>> }

\* C14 as stated: on the fallback path the text returned equals the output of
\* the generative model, whatever the ingestion attempt did, and the memory
\* update follows.
C14_AsStated ==
    \A r \in ReturnedFromFallback :
        /\ Len(runs[r].llm_outputs) = 1
        /\ runs[r].result = runs[r].llm_outputs[1]
        /\ Last(runs[r].path) = "memory"

\* C14: on the fallback path, whether the ingestion attempt stored the pair,
\* found a duplicate or failed, the answer of the run is the output of the
\* generative model, the text returned is that output after cleaning, and the
\* memory update follows: the run appends the query and then the answer to the
\* session history.
C14_IngestionNeverAffectsAnswer ==
    \A r \in ReturnedFromFallback :
        /\ Len(runs[r].llm_outputs) = 1
        /\ runs[r].answer = runs[r].llm_outputs[1]
        /\ runs[r].result = _clean_response(runs[r].llm_outputs[1])
        /\ Len(runs[r].ingest_calls) = 1
        /\ runs[r].ingest_calls[1].ret \in {"True", "False"}
        /\ runs[r].path = <<"route", "retrieve", "validate", "rag_answer", "memory">>
        /\ runs[r].messages # <<>>
        /\ Last(runs[r].messages).role = "assistant"
        /\ Last(runs[r].messages).content = runs[r].llm_outputs[1]

C14_Witness ==
    \E r \in ReturnedFromFallback :
        /\ runs[r].ingest_calls[1].ret = "False"
        /\ runs[r].result # <<>>
        /\ HistoryOf(redis_store, runs[r].pair) # <<>>
        /\ Last(HistoryOf(redis_store, runs[r].pair)).content = runs[r].answer

\* a run enters the pipeline only for a query that is neither empty nor
\* whitespace-only and for non-empty user and session ids; a refused request
\* visits no node, makes no generative call and no ingestion, and answers with
\* a fixed message
OnlyValidRequestsRun ==
    \A r \in Workers :
        /\ (runs[r].caller = "node" /\ runs[r].pc # "idle")
           => /\ \E i \in 1..Len(runs[r].query) : runs[r].query[i] # " "
              /\ runs[r].pair[1] # <<>>
              /\ runs[r].pair[2] # <<>>
        /\ runs[r].caller = "refused"
           => /\ runs[r].pc = "done"
              /\ runs[r].path = <<>>
              /\ runs[r].retrieved_docs = <<>>
              /\ runs[r].llm_calls = <<>>
              /\ runs[r].ingest_calls = <<>>
              /\ runs[r].messages = <<>>
              /\ runs[r].result # <<>>

\* a step that refuses a request leaves the collection and the session store
\* as they were
RefusalChangesNothing ==
    \A r \in Workers :
        (runs'[r].caller = "refused" /\ runs'[r] # runs[r])
        => /\ qdrant' = qdrant
           /\ redis_store' = redis_store

\* C15: a request with an empty or whitespace-only query, or with a missing or
\* empty user id or session id, never enters the pipeline: it visits no node,
\* makes no retrieval, no generative call and no ingestion, and the step that
\* refuses it changes neither the collection nor the session store.
C15_RefusedAtTheBoundary ==
    []OnlyValidRequestsRun /\ [][RefusalChangesNothing]_vars

C15_Witness ==
    /\ started = 2
    /\ \E r \in Workers :
           /\ runs[r].caller = "refused"
           /\ runs[r].result = <<"User ID and session ID are required.">>
    /\ qdrant # <<>>
    /\ redis_store # <<>>

----------------------------------------------------------------------------
(* Claims about the HTTP endpoints, checked under SpecApi *)

\* the last request lacks a field its endpoint requires
FieldMissing(req) ==
    \/ req.shape # "object"
    \/ IdsMissing(req.pair)
    \/ req.endpoint \in {"/query", "/query-stream"} /\ IsBlankQuery(req.query)

\* C16: every endpoint answers 400 to every request in which a required field
\* is missing or empty, whatever the shape of the body, and every 500 it
\* answers carries an error code
C16_MissingIs400AndFailureHasCode ==
    http.response.status # 0 =>
        /\ FieldMissing(http.request) => http.response.status = 400
        /\ http.response.status = 500 => http.response.code # ""

\* C17: a valid POST /query to the streaming service is answered with a
\* text/event-stream
C17_QueryAnsweredWithEventStream ==
    /\ http.service = "sse"
    /\ http.request.endpoint = "/query"
    /\ Validation(http.request, TRUE) = "ok"
    /\ http.response.status = 200
    => http.response.content_type = "text/event-stream"

----------------------------------------------------------------------------
(* Claims about the order of the stages of a run, checked under SpecRoute *)

\* the nodes of a run in the order of the graph's edges
StagePath == <<"route", "retrieve", "validate", "rag_answer", "memory">>

IsPrefix(s, t) == Len(s) <= Len(t) /\ SubSeq(t, 1, Len(s)) = s

\* the answer stages a run has performed: EXTERNAL_ANSWER is the generation
\* without context, RAG_ANSWER the cached answer or the generation from context
Branches(r) ==
    { b \in {"RAG_ANSWER", "EXTERNAL_ANSWER"} :
        \/ /\ b = "EXTERNAL_ANSWER"
           /\ \E i \in 1..Len(runs[r].llm_calls) :
                  runs[r].llm_calls[i].call = "generate_response"
        \/ /\ b = "RAG_ANSWER"
           /\ \E i \in 1..Len(runs[r].path) : runs[r].path[i] = "rag_answer"
           /\ \A i \in 1..Len(runs[r].llm_calls) :
                  runs[r].llm_calls[i].call = "generate_rag_answer" }

\* a query run that has started and not returned
Running(r) == runs[r].caller = "node" /\ runs[r].pc \notin {"idle", "done"}

StagesInOrder ==
    \A r \in Workers :
        runs[r].caller = "node" /\ runs[r].pc # "idle" =>
            /\ IsPrefix(runs[r].path, StagePath)
            /\ runs[r].pc = "route" <=> runs[r].path = <<>>
            /\ runs[r].pc = "retrieve" <=> runs[r].path = <<"route">>
            /\ runs[r].pc = "done" =>
                   /\ runs[r].path = StagePath
                   /\ Cardinality(Branches(r)) = 1
                   /\ Len(runs[r].llm_calls) <= 1
                   /\ "EXTERNAL_ANSWER" \in Branches(r) <=> ~runs[r].retrieval_valid

\* the positions of a run in the order the thread of execute passes them
Positions ==
    <<"route", "retrieve", "validate", "rag_answer", "ingest_search",
      "ingest_upsert", "memory", "save_user", "load_assistant",
      "save_assistant", "return", "done">>

Rank(pc) == CHOOSE i \in 1..Len(Positions) : Positions[i] = pc

\* the guards of the node actions: the run is at a position that has a step
HasStep(r) ==
    \/ runs[r].pc \in {"route", "retrieve", "validate", "external_knowledge",
                       "ingest_search", "ingest_upsert", "memory", "save_user",
                       "load_assistant", "save_assistant", "return"}
    \/ /\ runs[r].pc = "rag_answer"
       /\ \/ ~runs[r].retrieval_valid
          \/ runs[r].retrieval_valid /\ CachedHits(runs[r].filtered_docs) # {}
          \/ runs[r].retrieval_valid /\ CachedHits(runs[r].filtered_docs) = {}

\* a run that has not returned can take a step
NeverStuck == \A r \in Workers : Running(r) => HasStep(r)

\* every step of a run that has not returned moves it to a later position
Advances ==
    \A r \in Workers : Running(r) => Rank(runs'[r].pc) > Rank(runs[r].pc)

----------------------------------------------------------------------------
(* Claims about a failing retrieval, checked under SpecRoute *)

\* the step of retrieve_node in which preprocessing, the embedding or the
\* search failed: the node returns with the empty list and the run goes on
FailedRetrievalIsEmpty ==
    \A r \in Workers :
        runs[r].pc = "retrieve" /\ runs'[r].pc # "retrieve" /\ faults' > faults =>
            /\ runs'[r].retrieved_docs = <<>>
            /\ runs'[r].pc = "validate"

\* a run that retrieved nothing fails validation and answers on the fallback
EmptyRetrievalFallsBack ==
    \A r \in Workers :
        /\ runs[r].caller = "node"
        /\ runs[r].pc \in {"rag_answer", "ingest_search", "ingest_upsert", "memory",
                           "save_user", "load_assistant", "save_assistant",
                           "return", "done"}
        /\ runs[r].retrieved_docs = <<>>
        =>  /\ ~runs[r].retrieval_valid
            /\ runs[r].filtered_docs = <<>>
            /\ runs[r].pc # "rag_answer" => Branches(r) = {"EXTERNAL_ANSWER"}

\* C19: a failure inside retrieve yields the empty list, not an exception,
\* and the run then fails validation and takes the fallback branch
C19_FailedRetrievalFallsBack ==
    /\ [][FailedRetrievalIsEmpty]_vars
    /\ []EmptyRetrievalFallsBack

\* a run over a collection that held a curated document retrieved nothing,
\* and answered on the fallback
C19_Witness ==
    \E r \in Returned :
        /\ Len(qdrant) > 0
        /\ qdrant[1].payload.document_type # GeneratedQA
        /\ runs[r].retrieved_docs = <<>>
        /\ Branches(r) = {"EXTERNAL_ANSWER"}

----------------------------------------------------------------------------
(* Claims about a disabled history limit, checked under SpecMem *)

\* C20: with max_history 0 or negative no append evicts a stored turn: as
\* long as no read or write of the session store has failed, the stored
\* history of a session is every turn appended to it since its last clear
C20_NoLimitKeepsEveryTurn ==
    max_history <= 0 =>
        \A k \in RedisKeys : ~mem_fault[k] => Stored(k) = mem_log[k]

----------------------------------------------------------------------------
(* Claims about the turns a run appends, checked under Spec *)

\* the runs that returned without a failed read or write of the session store
ReturnedCleanly == { r \in Returned : ~runs[r].store_failed }

\* the stored history without its last two entries
Earlier(history) == SubSeq(history, 1, Len(history) - 2)

----------------------------------------------------------------------------
(* Claims about a failed duplicate check, checked under SpecIngest *)

\* the step of a call whose duplicate-check search fails goes on to the write
FailedSearchProceeds ==
    \A r \in Workers :
        (/\ runs[r].pc = "ingest_search"
         /\ runs'[r].pc # "ingest_search"
         /\ faults' > faults)
        => /\ runs'[r].pc = "ingest_upsert"
           /\ Last(runs'[r].ingest_calls).search_failed

\* the write of a call whose search failed, when the write succeeds, appends
\* the entry of the pair and the call reports success
WriteAfterFailedSearchStores ==
    \A r \in Workers :
        (/\ runs[r].pc = "ingest_upsert"
         /\ runs'[r].pc # "ingest_upsert"
         /\ Last(runs[r].ingest_calls).search_failed
         /\ faults' = faults)
        => /\ qdrant' = Append(qdrant,
                               QAPoint(Last(runs[r].ingest_calls).question,
                                       Last(runs[r].ingest_calls).answer,
                                       runs[r].vector))
           /\ Last(runs'[r].ingest_calls).ret = "True"
           /\ Last(runs'[r].ingest_calls).stored

\* C22: when the duplicate-check search fails, ingest still writes a new entry
\* for the pair and reports success provided the write succeeds, even if an
\* equivalent entry is already stored
C22_FailedSearchStillIngests ==
    /\ [][FailedSearchProceeds]_vars
    /\ [][WriteAfterFailedSearchStores]_vars

\* a call whose search failed stored a second entry for a question already held
C22_Witness ==
    \E r \in IngestReturns :
        /\ Last(runs[r].ingest_calls).search_failed
        /\ Last(runs[r].ingest_calls).duplicate_existed
        /\ Last(runs[r].ingest_calls).stored
        /\ Last(runs[r].ingest_calls).ret = "True"
        /\ \E i \in 1..(Len(qdrant) - 1) :
               /\ qdrant[i].payload.document_type = GeneratedQA
               /\ Score(qdrant[i].vector, Last(qdrant).vector) >= DedupThreshold

----------------------------------------------------------------------------
(* Claims about the worker of a stream that timed out, checked under SpecSSE *)

\* the stream has sent the timeout error
TimedOut ==
    \E i \in 1..Len(sse.events) : sse.events[i] = Event("error", <<"timeout">>)

\* C23: after the timeout error the worker goes on: its run always has a next
\* step, a finished run has appended its two turns to the session history
\* (when the session store did not fail) and, on the fallback path, has made
\* its ingestion call; the stream sends nothing after the error and never
\* takes the worker's result
C23_WorkerAbandonedNotCancelled ==
    TimedOut =>
        /\ Last(sse.events) = Event("error", <<"timeout">>)
        /\ EventCount({"chunk", "done"}) = 0
        /\ sse.taken = <<>>
        /\ sse.pc = "closed"
        /\ Running(1) => HasStep(1)
        /\ 1 \in ReturnedCleanly =>
               LET history == Stored(KeyOf(runs[1].pair))
               IN  /\ Len(history) >= 2
                   /\ history[Len(history) - 1] = Message("user", runs[1].query)
                   /\ history[Len(history)] = Message("assistant", runs[1].answer)
        /\ (1 \in Returned /\ "EXTERNAL_ANSWER" \in Branches(1)) =>
               /\ Len(runs[1].ingest_calls) = 1
               /\ runs[1].ingest_calls[1].ret # "pending"
        /\ sse.worker = "running" \/ runs[1].pc \in {"idle", "done"}

\* the worker of a stream that timed out finished on the fallback path: the
\* pair is stored, the turns are in the history, the answer lies in the queue
C23_Witness ==
    /\ TimedOut
    /\ sse.worker = "dead"
    /\ 1 \in ReturnedCleanly
    /\ runs[1].ingest_calls # <<>>
    /\ runs[1].ingest_calls[1].stored
    /\ Last(Stored(KeyOf(runs[1].pair))).content = runs[1].answer
    /\ sse.result_queue = << <<"success", runs[1].result>> >>

----------------------------------------------------------------------------
(* Query runs of one session on concurrent request threads
   (chatbot_service.py line 102: app.run(threaded=True)) *)

\* the session the concurrent requests belong to
RaceSession == << <<"a">>, <<"c">> >>

\* the two request threads, each serving one request
RaceThreads == {1, 2}

\* the query of each thread's request
RaceQuery(r) == IF r = 1 THEN <<"stipend">> ELSE <<"What", "is", "stipend", "?">>

RaceInit ==
    /\ sse = NoStream
    /\ http = HttpState("none", TRUE)
    /\ embedding = [t \in EmbedTexts |-> 0]
    /\ qdrant = <<>>
    /\ runs = [r \in Workers |-> IdleRun]
    /\ started = 0
    /\ faults = 0
    /\ max_history = MaxHistoryBound + 1
    /\ redis_client = TRUE
    /\ redis_store = <<>>
    /\ MemGhostInit

\* a request thread enters RAGChatbot.query while others are still in it
StartConcurrent ==
    \E r \in RaceThreads, loadFails \in FaultChoices :
        /\ started < Cardinality(RaceThreads)
        /\ FirstFree(r)
        /\ StartRun(r, RaceQuery(r), RaceSession, loadFails)
        /\ UNCHANGED http

\* the store starts empty, so no run generates from retrieved documents
RaceNext ==
    \/ StartConcurrent \/ Route \/ Retrieve \/ Validate \/ CachedAnswer
    \/ External \/ Search \/ Upsert \/ MemLoad \/ MemSave \/ Finish

SpecRace == RaceInit /\ [][RaceNext]_vars

\* a run writes a list back without a session-store error
SavesCleanly(r) ==
    /\ runs[r].pc \in {"save_user", "save_assistant"}
    /\ runs'[r].pc \notin {"save_user", "save_assistant"}
    /\ faults' = faults

\* C24: the write of an append stores the list its run read earlier with the
\* run's turn added, whatever other runs stored for the session in between;
\* every turn stored in between and absent from that list is gone afterwards
AppendWritesWhatItRead ==
    \A r \in Workers :
        SavesCleanly(r) =>
            LET k == KeyOf(runs[r].pair)
            IN  /\ _load_state(redis_store', k, FALSE) = runs[r].messages
                /\ \A i \in 1..Len(Stored(k)) :
                       (\A j \in 1..Len(runs[r].messages) :
                            runs[r].messages[j] # Stored(k)[i])
                           => \A j \in 1..Len(_load_state(redis_store', k, FALSE)) :
                                  _load_state(redis_store', k, FALSE)[j] # Stored(k)[i]

C24_AppendIsNotAtomic == [][AppendWritesWhatItRead]_vars

\* a lost update: two runs of the session have both stored their user turn
\* without a session-store error and with room under the cap, and the stored
\* history holds only one of the two turns
C24_Witness ==
    /\ \A r \in {1, 2} :
           /\ runs[r].pc = "load_assistant"
           /\ ~runs[r].store_failed
           /\ runs[r].pair = RaceSession
    /\ runs[1].query # runs[2].query
    /\ Len(Stored(KeyOf(RaceSession))) = 1
    /\ Len(Stored(KeyOf(RaceSession))) < 2 * max_history

----------------------------------------------------------------------------
(* initialize_chatbot called from concurrent request threads: the services
   run threaded, and a process that imports the module (rather than running
   it as a script) receives its first requests with chatbot = None *)

\* the handler of a request that passed its checks tests "chatbot is None"
\* (chatbot_service.py line 25, chatbot_service_sse.py line 61)
InitializeTest(t) ==
    /\ http.threads[t] = "idle"
    /\ http.handled + Cardinality({ u \in Workers : http.threads[u] # "idle" })
           < MaxRequests
    /\ http' = [http EXCEPT !.threads[t] = IF http.chatbot THEN "ready"
                                           ELSE "construct"]
    /\ UNCHANGED <<embedding, qdrant, runs, started, faults, memVars, sse>>

\* chatbot = RAGChatbot() (lines 27 and 63); an exception of the constructor
\* reaches the handler, which answers 500
InitializeConstruct(t, initFails) ==
    /\ http.threads[t] = "construct"
    /\ http' = IF initFails
               THEN [http EXCEPT !.threads[t] = "idle", !.handled = @ + 1,
                                 !.response = ErrorResponse(http.service, 500)]
               ELSE [http EXCEPT !.threads[t] = "ready", !.chatbot = TRUE,
                                 !.instances = @ + 1]
    /\ faults' = faults + Flag(initFails)
    /\ UNCHANGED <<embedding, qdrant, runs, started, memVars, sse>>

\* clear_session() from the return of initialize_chatbot
HandlerClear(t, pair, deleteFails) ==
    /\ http.threads[t] = "ready"
    /\ http' = [http EXCEPT !.threads[t] = "idle", !.handled = @ + 1,
                            !.response = [NoResponse EXCEPT
                                            !.status = 200,
                                            !.content_type = "application/json"]]
    /\ redis_store' = DeleteKey(redis_store, KeyOf(pair), deleteFails)
    /\ faults' = faults + Flag(deleteFails)
    /\ UNCHANGED <<embedding, qdrant, runs, started, max_history,
                   redis_client, memGhost, sse>>

BootTest == \E t \in Workers : InitializeTest(t)
BootConstruct == \E t \in Workers, initFails \in FaultChoices :
                     InitializeConstruct(t, initFails)
BootClear == \E t \in Workers, pair \in RequestPairs, deleteFails \in FaultChoices :
                 HandlerClear(t, pair, deleteFails)

BootInit ==
    /\ http \in { HttpState(service, chatbot) :
                    service \in {"sync", "sse"}, chatbot \in BOOLEAN }
    /\ sse = NoStream
    /\ embedding = [t \in EmbedTexts |-> 0]
    /\ qdrant = <<>>
    /\ runs = [r \in Workers |-> IdleRun]
    /\ started = 0
    /\ faults = 0
    /\ max_history = MaxHistoryBound
    /\ redis_client = TRUE
    /\ redis_store \in { <<>>, [k \in {KeyOf(RaceSession)} |-> <<Message("user", <<"x">>)>>] }
    /\ MemGhostInit

BootNext == BootTest \/ BootConstruct \/ BootClear

\* one service process answering /clear requests on concurrent threads
SpecBoot == BootInit /\ [][BootNext]_vars

\* C25 (as stated): a service process constructs at most one chatbot instance
C25_AtMostOneInstance == http.instances <= 1

----------------------------------------------------------------------------
(* Claims about what an append keeps, checked under SpecMem *)

\* the entries of a session that an append must keep: all of them, or the
\* most recent ones that fit under the cap together with the new entry
KeptByAppend(history) ==
    IF Len(history) + 1 > 2 * max_history
    THEN LastN(history, 2 * max_history - 1)
    ELSE history

\* C26 (as stated): with a cap of at least one turn, an append whose write
\* succeeds leaves every stored turn of the session in place except the
\* oldest ones beyond the cap, also when its read of the session failed
AppendKeepsStoredTurns ==
    (/\ max_history >= 1
     /\ mem_ops' = mem_ops + 1
     /\ mem_last'.op = "append"
     /\ redis_store' # redis_store)
        => LET k == KeyOf(mem_last'.pair)
               after == _load_state(redis_store', k, FALSE)
           IN  /\ Len(after) >= 1
               /\ SubSeq(after, 1, Len(after) - 1) = KeptByAppend(Stored(k))

C26_AppendNeverDiscards == [][AppendKeepsStoredTurns]_vars

----------------------------------------------------------------------------
(* Two users of one service process, one request after the other *)

\* the session of the user each request thread serves
UserSession(r) ==
    IF r = 1 THEN << <<"a">>, <<"c">> >> ELSE << <<"a", ":", "b">>, <<"c">> >>

\* the first user has talked to the service before: the session store holds
\* one exchange of theirs
UsersInit ==
    /\ sse = NoStream
    /\ http = HttpState("none", TRUE)
    /\ embedding \in EmbeddingModels
    /\ qdrant \in InitialStores(embedding)
    /\ runs = [r \in Workers |-> IdleRun]
    /\ started = 0
    /\ faults = 0
    /\ max_history = MaxHistoryBound
    /\ redis_client = TRUE
    /\ redis_store = [k \in {KeyOf(UserSession(1))} |->
                         <<Message("user", <<"x">>), Message("assistant", <<"w">>)>>]
    /\ MemGhostInit

StartUser ==
    \E r \in {1, 2}, query \in Queries, loadFails \in FaultChoices :
        /\ Quiet
        /\ StartRun(r, query, UserSession(r), loadFails)
        /\ UNCHANGED http

UsersNext ==
    \/ StartUser \/ Route \/ Retrieve \/ Validate \/ CachedAnswer \/ Generate
    \/ External \/ Search \/ Upsert \/ MemLoad \/ MemSave \/ Finish

SpecUsers == UsersInit /\ [][UsersNext]_vars

\* the run generated its answer with its user's history in the prompt, and
\* the answer was stored in the collection
CachedWithHistory(a) ==
    /\ runs[a].formatted_history # <<>>
    /\ runs[a].llm_outputs # <<>>
    /\ runs[a].ingest_calls # <<>>
    /\ Last(runs[a].ingest_calls).stored
    /\ Last(runs[a].ingest_calls).answer = Last(runs[a].llm_outputs)

\* the run of another user was answered from the collection, without a call
\* of the model, with the text the first run generated for the same question
ServedFrom(b, a) ==
    /\ b \in Returned
    /\ runs[a].pair[1] # runs[b].pair[1]
    /\ runs[b].llm_calls = <<>>
    /\ runs[b].query = Last(runs[a].ingest_calls).question
    /\ runs[b].answer = Last(runs[a].ingest_calls).answer

\* C27 (as stated): no user is answered with text that the model generated
\* with another user's conversation history in its prompt
C27_NoAnswerFromOthersHistory ==
    \A a, b \in Workers : CachedWithHistory(a) => ~ServedFrom(b, a)

----------------------------------------------------------------------------
(* Generative calls that fail: GeminiLLM._call_api, lines 35-135 *)

\* _call_api returns a fixed apology as if it were the generated text: for a
\* status other than 200 (line 69) and for a request that timed out (line 124)
ApologyTexts == { <<"Oops!", " ", "w">>, <<"Whoa,", " ", "w">> }

\* what _call_api returns: the text of the model or an apology
CallResults == LLMTexts \cup ApologyTexts

GenerateOrFail == \E r \in Workers, text \in CallResults : RagGenerate(r, text)
ExternalOrFail ==
    \E r \in Workers, text \in CallResults, embedFails \in FaultChoices :
        ExternalGenerate(r, text, embedFails)

FailingNext ==
    \/ Start \/ Route \/ Retrieve \/ Validate \/ CachedAnswer \/ GenerateOrFail
    \/ ExternalOrFail \/ Search \/ Upsert \/ MemLoad \/ MemSave \/ Finish

\* the service answering one request after the other while generative calls
\* may fail
SpecFailing == PipeInit /\ [][FailingNext]_vars

\* C28 (as stated): no entry of the collection holds an apology of a failed
\* generative call as its answer, and no run is answered with one from the
\* collection
C28_NoApologyCached ==
    /\ \A i \in 1..Len(qdrant) :
           qdrant[i].payload.document_type = GeneratedQA
               => qdrant[i].payload.answer \notin ApologyTexts
    /\ \A r \in Returned :
           runs[r].llm_calls = <<>> => runs[r].answer \notin ApologyTexts

----------------------------------------------------------------------------
(* Claims about the stored turns of a run, checked under Spec *)

\* C29 (as stated): after a completed run with no session-store error the
\* assistant turn at the end of the session history holds the text the run
\* returned, i.e. the answer after the final cleaning pass
C29_StoredTurnIsReturnedText ==
    \A r \in ReturnedCleanly :
        LET history == Stored(KeyOf(runs[r].pair))
        IN  /\ history # <<>>
            /\ Last(history).role = "assistant"
            /\ Last(history).content = runs[r].result

\* user, assistant, user, assistant, ...: an even number of entries
Alternates(history) ==
    /\ Len(history) % 2 = 0
    /\ \A i \in 1..Len(history) :
           history[i].role = IF i % 2 = 1 THEN "user" ELSE "assistant"

\* the roles of the turns in a formatted history
RolesOf(formatted_history) ==
    LET labels == SelectSeq(formatted_history,
                            LAMBDA t : t \in {"User:", "Assistant:"})
    IN  [i \in 1..Len(labels) |->
            [role |-> IF labels[i] = "User:" THEN "user" ELSE "assistant"]]

\* the history the run read when it started alternated
StartedAlternating(r) == Alternates(RolesOf(runs[r].formatted_history))

\* C30: with a cap of at least one turn and runs executing one at a time, the
\* stored history of the session of a completed run has even length and
\* alternates user and assistant turns, starting with a user turn, as long as
\* nothing has failed; and a run without a session-store failure that found
\* the history alternating leaves it alternating, also when its appends
\* trimmed it
C30_HistoryAlternates ==
    max_history >= 1 =>
        /\ faults = 0 =>
               \A r \in Returned : Alternates(Stored(KeyOf(runs[r].pair)))
        /\ \A r \in ReturnedCleanly :
               StartedAlternating(r) => Alternates(Stored(KeyOf(runs[r].pair)))

\* the second run of a session has completed: its two appends each trimmed
\* the history, which is at the cap and ends with the run's two turns
C30_Witness ==
    /\ max_history >= 1
    /\ faults = 0
    /\ started = 2
    /\ 1 \in ReturnedCleanly
    /\ StartedAlternating(1)
    /\ LET history == Stored(KeyOf(runs[1].pair))
       IN  /\ Len(history) = 2 * max_history
           /\ history[Len(history) - 1] = Message("user", runs[1].query)
           /\ history[Len(history)] = Message("assistant", runs[1].answer)
           /\ runs[1].formatted_history # <<>>

====
